---- MODULE Spec2Model ----
(***************************************************************************)
(* Model of app.py of the AI Medical Report Analyzer: the Streamlit        *)
(* session of main() with the retry loop of analyze_medical_report, and    *)
(* the pure functions extract_section, parse_medications, the two          *)
(* effectiveness displays and create_diagnosis_chart.                      *)
(* Text is a sequence of one-character strings, so that slicing, find,     *)
(* strip and the regular expressions are computed character by character.  *)
(***************************************************************************)
EXTENDS Integers, Sequences, FiniteSets, TLC

VARIABLES
    file_type,        \* st.radio "File Type:": "PDF" or "Image"
    uploaded_file,    \* st.file_uploader: NoFile or [fmt, text]
    analysis_result,  \* st.session_state.analysis_result
    analysis_done,    \* st.session_state.analysis_done
    file_uploaded,    \* st.session_state.file_uploaded
    errors,           \* st.error messages of the latest script run
    shown,            \* argument of render_analysis_tabs in the latest run
    pc,               \* position of the script run: idle / call / sleep / finish
    attempt,          \* loop variable of analyze_medical_report
    content,          \* argument of analyze_medical_report
    calls,            \* model.generate_content calls of this invocation
    waits,            \* time.sleep calls of this invocation
    slept,            \* seconds slept in this invocation
    replies,          \* the service's replies to this invocation, in order
    outcome,          \* how analyze_medical_report ended
    fpc,              \* position of a pure-function run: off / input / done
    text,             \* input text of a pure-function run
    header,           \* section_title of an extract_section run
    section,          \* result of extract_section
    medications,      \* result of parse_medications
    cards,            \* effectiveness shown by render_medication_cards, per record
    chart,            \* effectiveness plotted by plot_medicine_effectiveness, per record
    sizes             \* sizes of create_diagnosis_chart

session_vars == <<file_type, uploaded_file, analysis_result, analysis_done,
                  file_uploaded, errors, shown>>
client_vars == <<pc, attempt, content, calls, waits, slept, replies, outcome>>
display_vars == <<cards, chart, sizes>>
pure_vars == <<fpc, text, header, section, medications, display_vars>>
vars == <<session_vars, client_vars, pure_vars>>

-----------------------------------------------------------------------------
(* Program constants *)

MAX_RETRIES == 3

RETRY_DELAY == 2

\* the string returned by analyze_medical_report when the last attempt fails
FAILURE_MESSAGE ==
    <<"A", "I", " ", "a", "n", "a", "l", "y", "s", "i", "s", " ", "f", "a",
      "i", "l", "e", "d", ".", " ", "P", "l", "e", "a", "s", "e", " ", "t",
      "r", "y", " ", "a", "g", "a", "i", "n", " ", "l", "a", "t", "e", "r",
      ".">>

-----------------------------------------------------------------------------
(* Python string primitives on character sequences *)

\* the characters str.strip() and the regular expression \s take as blank
Whitespace == {" ", "\t", "\n", "\r", "\f"}

Min(S) == CHOOSE x \in S : \A y \in S : x <= y

\* s[i:] with a 0-based index, as Python slices
From(s, i) == IF i >= Len(s) THEN <<>> ELSE SubSeq(s, i + 1, Len(s))

\* s[:i] with a 0-based index
Upto(s, i) == IF i <= 0 THEN <<>> ELSE SubSeq(s, 1, IF i > Len(s) THEN Len(s) ELSE i)

\* sub occurs in s at 0-based offset i
OccursAt(s, sub, i) ==
    /\ i >= 0
    /\ i + Len(sub) <= Len(s)
    /\ \A k \in 1..Len(sub) : s[i + k] = sub[k]

\* s.find(sub, start): lowest 0-based offset >= start, or -1
Find(s, sub, start) ==
    LET hits == {i \in start..(Len(s) - Len(sub)) : OccursAt(s, sub, i)}
    IN  IF hits = {} THEN -1 ELSE Min(hits)

\* sub in s
Contains(s, sub) == Find(s, sub, 0) # -1

\* s.lstrip(cs)
RECURSIVE LStrip(_, _)
LStrip(s, cs) == IF s # <<>> /\ Head(s) \in cs THEN LStrip(Tail(s), cs) ELSE s

\* s.rstrip(cs)
RECURSIVE RStrip(_, _)
RStrip(s, cs) ==
    IF s # <<>> /\ s[Len(s)] \in cs
    THEN RStrip(SubSeq(s, 1, Len(s) - 1), cs)
    ELSE s

\* s.strip(cs)
StripChars(s, cs) == RStrip(LStrip(s, cs), cs)

\* s.strip()
Strip(s) == StripChars(s, Whitespace)

-----------------------------------------------------------------------------
(* The session of main() and the retry loop of analyze_medical_report *)

NoFile == [fmt |-> "none", text |-> <<>>]

\* what the ingestion layer extracts from the uploaded document
ExtractedTexts == { <<>>, <<" ", "\n">>, <<"H", "b", " ", "9">> }

Files == [fmt : {"pdf", "img"}, text : ExtractedTexts]

\* response.text of the replies that carry a text
ReplyTexts ==
    { <<>>,
      <<"#", "#", " ", "1", ".", " ", "K", "e", "y", " ", "F", "i", "n", "d",
        "i", "n", "g", "s", "\n", "o", "k">>,
      FAILURE_MESSAGE }

\* one reply of model.generate_content:
\*   api_error     raises exceptions.GoogleAPIError
\*   other_error   raises an exception that is neither GoogleAPIError nor ValueError
\*   none          returns a falsy response
\*   no_text_attr  returns a response without the attribute text
\*   text          returns a response whose text is .text
Replies ==
    [kind : {"api_error", "other_error", "none", "no_text_attr"}, text : {<<>>}]
        \cup [kind : {"text"}, text : ReplyTexts]

NotShown == [rendered |-> FALSE, arg |-> <<>>]

NoOutcome == [kind |-> "none", value |-> <<>>]

\* Image.open(uploaded_file) raises for a file that is no image
PreviewRaises(f, ft) == ft = "Image" /\ f.fmt # "img"

\* extract_text_from_pdf raises on a non-PDF; extract_text_from_image(image)
\* raises when the preview left the local `image` unbound
ExtractRaises(f, ft) ==
    \/ ft = "PDF" /\ f.fmt # "pdf"
    \/ ft = "Image" /\ f.fmt # "img"

\* lines 612-620: the preview block; gives [file_uploaded, errors]
Preview(f, ft, done, fu) ==
    IF f # NoFile /\ ~done
    THEN IF PreviewRaises(f, ft)
         THEN [file_uploaded |-> fu, errors |-> {"Error processing file"}]
         ELSE [file_uploaded |-> TRUE, errors |-> {}]
    ELSE [file_uploaded |-> fu, errors |-> {}]

\* line 649: the results view is rendered
ResultsShown(done, res) == done /\ res # <<>>

\* lines 649-663: what render_analysis_tabs is given in this run
Render(done, res) ==
    IF ResultsShown(done, res) THEN [rendered |-> TRUE, arg |-> res] ELSE NotShown

\* line 623: the Analyze button is rendered, so a click starts an analysis
AnalyzeAvailable == uploaded_file # NoFile /\ ~analysis_done

\* a script run in which no button is pressed
PlainRun(f, ft) ==
    LET p == Preview(f, ft, analysis_done, file_uploaded)
    IN  /\ file_uploaded' = p.file_uploaded
        /\ errors' = p.errors
        /\ shown' = Render(analysis_done, analysis_result)
        /\ UNCHANGED <<analysis_result, analysis_done>>

UploadFile(f) ==
    /\ pc = "idle"
    /\ f # uploaded_file
    /\ uploaded_file' = f
    /\ PlainRun(f, file_type)
    /\ UNCHANGED <<file_type, client_vars, pure_vars>>

RemoveFile ==
    /\ pc = "idle"
    /\ uploaded_file # NoFile
    /\ uploaded_file' = NoFile
    /\ PlainRun(NoFile, file_type)
    /\ UNCHANGED <<file_type, client_vars, pure_vars>>

SelectFileType(ft) ==
    /\ pc = "idle"
    /\ file_type' = ft
    /\ PlainRun(uploaded_file, ft)
    /\ UNCHANGED <<uploaded_file, client_vars, pure_vars>>

\* a variant of NoReadableText that does not strip the text
NoReadableTextUnstripped(extracted_text) == extracted_text = <<>>

\* line 636: not extracted_text.strip()
NoReadableText(extracted_text) == Strip(extracted_text) = <<>>

\* lines 623-641: the Analyze button is pressed; the run goes as far as the
\* entry of analyze_medical_report
ClickAnalyze ==
    /\ pc = "idle"
    /\ AnalyzeAvailable
    /\ LET p == Preview(uploaded_file, file_type, analysis_done, file_uploaded)
       IN  /\ file_uploaded' = p.file_uploaded
           /\ IF ExtractRaises(uploaded_file, file_type)
              THEN \* lines 644-646, then line 649 with analysis_done False
                   /\ errors' = p.errors \cup {"Analysis failed"}
                   /\ analysis_done' = FALSE
                   /\ shown' = NotShown
                   /\ UNCHANGED <<client_vars>>
              ELSE IF NoReadableText(uploaded_file.text)
              THEN \* lines 636-638: main returns
                   /\ errors' = p.errors \cup {"No readable text found in the document."}
                   /\ shown' = NotShown
                   /\ UNCHANGED <<analysis_done, client_vars>>
              ELSE \* line 641: analyze_medical_report(extracted_text)
                   /\ errors' = p.errors
                   /\ shown' = NotShown
                   /\ pc' = "call"
                   /\ attempt' = 0
                   /\ content' = uploaded_file.text
                   /\ calls' = 0
                   /\ waits' = 0
                   /\ slept' = 0
                   /\ replies' = <<>>
                   /\ outcome' = NoOutcome
                   /\ UNCHANGED analysis_done
    /\ UNCHANGED <<file_type, uploaded_file, analysis_result, pure_vars>>

\* line 213: the reply passes `response and hasattr(response, 'text')`
HasText(r) == r.kind = "text"

\* line 216: the attempt ended in GoogleAPIError or ValueError
Caught(r) == r.kind \in {"api_error", "none", "no_text_attr"}

\* a variant of RetryAfter that is off by one
RetryAfterOffByOne(a) == a < MAX_RETRIES

\* line 217: the failed attempt is followed by a sleep and another attempt
RetryAfter(a) == a < MAX_RETRIES - 1

\* lines 210-221: one iteration of the loop, up to its return, raise or sleep
GenerateContent(r) ==
    /\ pc = "call"
    /\ attempt < MAX_RETRIES
    /\ calls' = calls + 1
    /\ replies' = Append(replies, r)
    /\ IF HasText(r)
       THEN /\ outcome' = [kind |-> "return", value |-> r.text]
            /\ pc' = "finish"
            /\ UNCHANGED errors
       ELSE IF Caught(r)
       THEN IF RetryAfter(attempt)
            THEN /\ pc' = "sleep"
                 /\ UNCHANGED <<outcome, errors>>
            ELSE /\ errors' = errors \cup {"Failed to analyze the report."}
                 /\ outcome' = [kind |-> "return", value |-> FAILURE_MESSAGE]
                 /\ pc' = "finish"
       ELSE /\ outcome' = [kind |-> "raise", value |-> <<>>]
            /\ pc' = "finish"
            /\ UNCHANGED errors
    /\ UNCHANGED <<file_type, uploaded_file, analysis_result, analysis_done,
                   file_uploaded, shown, attempt, content, waits, slept, pure_vars>>

\* a variant of Sleep whose delay doubles with every attempt
SleepBackoff ==
    /\ pc = "sleep"
    /\ waits' = waits + 1
    /\ slept' = slept + RETRY_DELAY * (attempt + 1)
    /\ attempt' = attempt + 1
    /\ pc' = "call"
    /\ UNCHANGED <<session_vars, content, calls, replies, outcome, pure_vars>>

\* line 218 and the next value of the loop variable (line 210); a loop that
\* runs out of values falls off the end of the function, which returns None
Sleep ==
    /\ pc = "sleep"
    /\ waits' = waits + 1
    /\ slept' = slept + RETRY_DELAY
    /\ attempt' = attempt + 1
    /\ IF attempt + 1 < MAX_RETRIES
       THEN /\ pc' = "call"
            /\ UNCHANGED outcome
       ELSE /\ pc' = "finish"
            /\ outcome' = [kind |-> "return", value |-> <<>>]
    /\ UNCHANGED <<session_vars, content, calls, replies>>
    /\ UNCHANGED pure_vars

\* lines 641-663: analyze_medical_report has ended and main goes on to its end
FinishAnalyze ==
    /\ pc = "finish"
    /\ pc' = "idle"
    /\ IF outcome.kind = "return"
       THEN /\ analysis_result' = outcome.value
            /\ analysis_done' = TRUE
            /\ UNCHANGED errors
       ELSE /\ errors' = errors \cup {"Analysis failed"}
            /\ analysis_done' = FALSE
            /\ UNCHANGED analysis_result
    /\ shown' = Render(analysis_done', analysis_result')
    /\ UNCHANGED <<file_type, uploaded_file, file_uploaded, attempt, content,
                   calls, waits, slept, replies, outcome, pure_vars>>

\* lines 687-691 and the run st.rerun() starts
ClickAnalyzeAnother ==
    /\ pc = "idle"
    /\ ResultsShown(analysis_done, analysis_result)
    /\ analysis_done' = FALSE
    /\ analysis_result' = <<>>
    /\ LET p == Preview(uploaded_file, file_type, FALSE, FALSE)
       IN  /\ file_uploaded' = p.file_uploaded
           /\ errors' = p.errors
    /\ shown' = NotShown
    /\ UNCHANGED <<file_type, uploaded_file, client_vars, pure_vars>>

PureIdle ==
    /\ fpc = "off"
    /\ text = <<>>
    /\ header = <<>>
    /\ section = <<>>
    /\ medications = <<>>
    /\ cards = <<>>
    /\ chart = <<>>
    /\ sizes = <<>>

\* lines 588-594 and the first run, with nothing uploaded
Init ==
    /\ file_type = "PDF"
    /\ uploaded_file = NoFile
    /\ analysis_result = <<>>
    /\ analysis_done = FALSE
    /\ file_uploaded = FALSE
    /\ errors = {}
    /\ shown = NotShown
    /\ pc = "idle"
    /\ attempt = 0
    /\ content = <<>>
    /\ calls = 0
    /\ waits = 0
    /\ slept = 0
    /\ replies = <<>>
    /\ outcome = NoOutcome
    /\ PureIdle

Next ==
    \/ \E f \in Files : UploadFile(f)
    \/ RemoveFile
    \/ \E ft \in {"PDF", "Image"} : SelectFileType(ft)
    \/ ClickAnalyze
    \/ \E r \in Replies : GenerateContent(r)
    \/ Sleep
    \/ FinishAnalyze
    \/ ClickAnalyzeAnother

Spec == Init /\ [][Next]_vars

-----------------------------------------------------------------------------
(* Properties of the retry loop and of the session *)

\* the attempt ended in the except clause of line 216
AllCaught(rs) == \A i \in 1..Len(rs) : Caught(rs[i])

\* analyze_medical_report has ended (its result is about to be stored, or
\* the run that called it is over)
Ended == pc \in {"finish", "idle"} /\ replies # <<>>

\* C1: against a service that fails on every attempt (GoogleAPIError, or a
\* response that is falsy or has no text), generate_content is called exactly
\* MAX_RETRIES times, never a fourth time, and once the third call has failed
\* the operation has ended, returning the failure message.
C1_ThreeCallsThenFailure ==
    /\ calls <= MAX_RETRIES
    /\ calls = Len(replies)
    /\ (AllCaught(replies) /\ calls = MAX_RETRIES) =>
           /\ Ended
           /\ outcome = [kind |-> "return", value |-> FAILURE_MESSAGE]
    /\ (AllCaught(replies) /\ Ended) =>
           /\ calls = MAX_RETRIES
           /\ outcome = [kind |-> "return", value |-> FAILURE_MESSAGE]

C1_Witness ==
    /\ pc = "finish"
    /\ Len(replies) = MAX_RETRIES
    /\ AllCaught(replies)
    /\ calls = MAX_RETRIES
    /\ outcome.value = FAILURE_MESSAGE

\* C2: when the first reply that carries a text is the k-th, the operation
\* returns that text at once: k calls, k-1 sleeps of RETRY_DELAY each, one
\* between consecutive attempts, and no call or sleep after the success.
C2_FirstSuccessReturns ==
    \A k \in 1..Len(replies) :
        HasText(replies[k]) =>
            /\ k = Len(replies)
            /\ AllCaught(SubSeq(replies, 1, k - 1))
            /\ Ended
            /\ calls = k
            /\ waits = k - 1
            /\ slept = (k - 1) * RETRY_DELAY
            /\ outcome = [kind |-> "return", value |-> replies[k].text]

C2_Witness ==
    /\ pc = "finish"
    /\ Len(replies) = 3
    /\ Caught(replies[1])
    /\ Caught(replies[2])
    /\ HasText(replies[3])
    /\ replies[3].text # <<>>
    /\ outcome.value = replies[3].text
    /\ calls = 3
    /\ waits = 2

\* the value analyze_medical_report returns for a reply that carries a text
SuccessOutcome(r) == [kind |-> "return", value |-> r.text]

\* C3: when the last attempt fails the operation does not raise, and what it
\* returns differs from what it returns for every reply that carries a text.
C3_FailureDistinctFromSuccess ==
    (Ended /\ AllCaught(replies)) =>
        /\ outcome.kind = "return"
        /\ \A r \in Replies : HasText(r) => outcome # SuccessOutcome(r)

\* the latest run ended with the retries exhausted and said so
FailureShown == pc = "idle" /\ "Failed to analyze the report." \in errors

\* C4: after the retries are exhausted the failure is shown and the session
\* is ready for a new attempt: the failure message is not stored as the
\* result of a finished analysis, it is not handed to render_analysis_tabs
\* (extract_section, parse_medications), and the Analyze button is offered.
C4_FailureLeavesSessionReady ==
    FailureShown =>
        /\ ~(analysis_done /\ analysis_result = FAILURE_MESSAGE)
        /\ ~(shown.rendered /\ shown.arg = FAILURE_MESSAGE)
        /\ AnalyzeAvailable

\* a reply without textual content: no response, no text, or an empty text
LacksText(r) ==
    \/ r.kind \in {"none", "no_text_attr"}
    \/ r.kind = "text" /\ r.text = <<>>

\* C5: an attempt is followed by another only after a service error or a
\* result without textual content, and only before the third attempt; a
\* result without textual content is never returned as the success; any
\* other failure ends the operation without a further call.
C5_RetryConditions ==
    /\ \A i \in 1..(Len(replies) - 1) :
           /\ replies[i].kind = "api_error" \/ LacksText(replies[i])
           /\ i < MAX_RETRIES
    /\ \A i \in 1..Len(replies) :
           (Ended /\ LacksText(replies[i])) =>
               (i < Len(replies) \/ outcome.value = FAILURE_MESSAGE)
    /\ \A i \in 1..Len(replies) :
           replies[i].kind = "other_error" =>
               i = Len(replies) /\ Ended /\ outcome.kind = "raise"

-----------------------------------------------------------------------------
(* extract_section *)

\* the marker remaining_content.find looks for (line 243)
SECTION_MARKER == <<"#", "#", " ">>

\* "\nNo information found in this section." (line 237)
NO_INFORMATION ==
    <<"\n", "N", "o", " ", "i", "n", "f", "o", "r", "m", "a", "t", "i", "o",
      "n", " ", "f", "o", "u", "n", "d", " ", "i", "n", " ", "t", "h", "i",
      "s", " ", "s", "e", "c", "t", "i", "o", "n", ".">>

\* f"## {section_title}\nNo information found in this section."
Placeholder(section_title) == SECTION_MARKER \o section_title \o NO_INFORMATION

\* a variant of extract_section that looks for the next marker from the
\* start of remaining_content instead of from the end of the title
extract_section_from_start(c, section_title) ==
    IF ~Contains(c, section_title)
    THEN Placeholder(section_title)
    ELSE LET section_start == Find(c, section_title, 0)
             remaining_content == From(c, section_start)
             next_section_pos == Find(remaining_content, SECTION_MARKER, 0)
         IN  IF next_section_pos # -1
             THEN Strip(Upto(remaining_content, next_section_pos))
             ELSE Strip(remaining_content)

\* a variant of extract_section that answers a missing section with nothing
extract_section_no_placeholder(c, section_title) ==
    IF ~Contains(c, section_title)
    THEN <<>>
    ELSE LET section_start == Find(c, section_title, 0)
             remaining_content == From(c, section_start)
             next_section_pos ==
                 Find(remaining_content, SECTION_MARKER, Len(section_title))
         IN  IF next_section_pos # -1
             THEN Strip(Upto(remaining_content, next_section_pos))
             ELSE Strip(remaining_content)

\* lines 234-246
extract_section(c, section_title) ==
    IF ~Contains(c, section_title)
    THEN Placeholder(section_title)
    ELSE LET section_start == Find(c, section_title, 0)
             remaining_content == From(c, section_start)
             next_section_pos ==
                 Find(remaining_content, SECTION_MARKER, Len(section_title))
         IN  IF next_section_pos # -1
             THEN Strip(Upto(remaining_content, next_section_pos))
             ELSE Strip(remaining_content)

\* the texts extract_section is run on are made of these pieces
Pieces == { <<"#">>, <<" ">>, <<"a">>, <<"\n">>, SECTION_MARKER }

MaxPieces == 4

MaxHeaderPieces == 2

RECURSIVE Concats(_)
Concats(n) ==
    IF n = 0
    THEN {<<>>}
    ELSE LET shorter == Concats(n - 1)
         IN  shorter \cup {p \o q : p \in shorter, q \in Pieces}

SectionTexts == Concats(MaxPieces)

SectionHeaders == Concats(MaxHeaderPieces)

\* the session is not part of a run of a pure function
SessionIdle ==
    /\ file_type = "PDF"
    /\ uploaded_file = NoFile
    /\ analysis_result = <<>>
    /\ analysis_done = FALSE
    /\ file_uploaded = FALSE
    /\ errors = {}
    /\ shown = NotShown
    /\ pc = "idle"
    /\ attempt = 0
    /\ content = <<>>
    /\ calls = 0
    /\ waits = 0
    /\ slept = 0
    /\ replies = <<>>
    /\ outcome = NoOutcome

InitSection ==
    /\ SessionIdle
    /\ fpc = "input"
    /\ text \in SectionTexts
    /\ header \in SectionHeaders
    /\ section = <<>>
    /\ medications = <<>>
    /\ cards = <<>>
    /\ chart = <<>>
    /\ sizes = <<>>

\* a call extract_section(text, header)
ExtractSection ==
    /\ fpc = "input"
    /\ section' = extract_section(text, header)
    /\ fpc' = "done"
    /\ UNCHANGED <<session_vars, client_vars, text, header, medications, display_vars>>

NextSection == ExtractSection

SpecSection == InitSection /\ [][NextSection]_vars

\* C6 as stated: for every text and header, extract_section returns a
\* non-empty string, and the placeholder when the header is not in the text.
C6_AlwaysNonEmpty ==
    fpc = "done" =>
        /\ section # <<>>
        /\ ~Contains(text, header) => section = Placeholder(header)

\* C6, amended: for every text and every header that has a character other
\* than white space, extract_section returns a non-empty string; and for
\* every header that is not in the text it returns the placeholder
\* "## " + header + "\nNo information found in this section.".
C6_NonEmptyForNonBlankHeader ==
    fpc = "done" =>
        /\ Strip(header) # <<>> => section # <<>>
        /\ ~Contains(text, header) =>
               /\ section = Placeholder(header)
               /\ section # <<>>

C6_Witness ==
    /\ fpc = "done"
    /\ Strip(header) # <<>>
    /\ Contains(text, header)
    /\ section # <<>>
    /\ Len(section) < Len(text)

\* C7: when the header is in the text, the result is the stripped substring
\* from the first occurrence of the header up to the first "## " that starts
\* at or after the end of that occurrence, or up to the end of the text; so
\* nothing from that marker on (the following section) is in the result.
C7_SectionEndsAtNextMarker ==
    (fpc = "done" /\ Contains(text, header)) =>
        LET first == Min({i \in 0..Len(text) : OccursAt(text, header, i)})
            after == {j \in (first + Len(header))..Len(text) :
                          OccursAt(text, SECTION_MARKER, j)}
            end == IF after = {} THEN Len(text) ELSE Min(after)
            slice == SubSeq(text, first + 1, end)
        IN  /\ section = Strip(slice)
            /\ Len(section) <= end - first
            /\ \A j \in Len(header)..Len(slice) :
                   ~OccursAt(slice, SECTION_MARKER, j)

C7_Witness ==
    /\ fpc = "done"
    /\ header = <<"#", "#", " ", "a">>
    /\ text = <<"#", "#", " ", "a", "#", "#", " ">>
    /\ section = header

-----------------------------------------------------------------------------
(* parse_medications *)

\* "## 3. Medication Recommendations" (line 251)
MED_HEADER ==
    <<"#", "#", " ", "3", ".", " ", "M", "e", "d", "i", "c", "a", "t", "i",
      "o", "n", " ", "R", "e", "c", "o", "m", "m", "e", "n", "d", "a", "t",
      "i", "o", "n", "s">>

\* "Effectiveness:" (line 271)
EFFECTIVENESS_LABEL ==
    <<"E", "f", "f", "e", "c", "t", "i", "v", "e", "n", "e", "s", "s", ":">>

NAME_KEY == <<"n", "a", "m", "e">>

EFFECTIVENESS_KEY ==
    <<"e", "f", "f", "e", "c", "t", "i", "v", "e", "n", "e", "s", "s">>

ADDITIONAL_INFO_KEY ==
    <<"a", "d", "d", "i", "t", "i", "o", "n", "a", "l", "_", "i", "n", "f", "o">>

DOSAGE_KEY == <<"d", "o", "s", "a", "g", "e">>

Digits == {"0", "1", "2", "3", "4", "5", "6", "7", "8", "9"}

DigitVal(c) ==
    CASE c = "0" -> 0 [] c = "1" -> 1 [] c = "2" -> 2 [] c = "3" -> 3
      [] c = "4" -> 4 [] c = "5" -> 5 [] c = "6" -> 6 [] c = "7" -> 7
      [] c = "8" -> 8 [] c = "9" -> 9

\* int(ds) of a string of digits
RECURSIVE ToInt(_)
ToInt(ds) ==
    IF ds = <<>>
    THEN 0
    ELSE ToInt(SubSeq(ds, 1, Len(ds) - 1)) * 10 + DigitVal(ds[Len(ds)])

UPPER ==
    <<"A", "B", "C", "D", "E", "F", "G", "H", "I", "J", "K", "L", "M",
      "N", "O", "P", "Q", "R", "S", "T", "U", "V", "W", "X", "Y", "Z">>

LOWER ==
    <<"a", "b", "c", "d", "e", "f", "g", "h", "i", "j", "k", "l", "m",
      "n", "o", "p", "q", "r", "s", "t", "u", "v", "w", "x", "y", "z">>

\* s.lower()
Lower(s) ==
    [i \in 1..Len(s) |->
        IF \E k \in 1..Len(UPPER) : UPPER[k] = s[i]
        THEN LOWER[CHOOSE k \in 1..Len(UPPER) : UPPER[k] = s[i]]
        ELSE s[i]]

\* s.replace(" ", "_")
SpacesToUnderscores(s) == [i \in 1..Len(s) |-> IF s[i] = " " THEN "_" ELSE s[i]]

\* s.split(sep): the parts of s between the occurrences of sep
RECURSIVE Split(_, _)
Split(s, sep) ==
    LET i == Find(s, sep, 0)
    IN  IF i = -1
        THEN <<s>>
        ELSE <<Upto(s, i)>> \o Split(From(s, i + Len(sep)), sep)

\* the offset of the first character at or after offset i that \s rejects
RECURSIVE SkipWhitespace(_, _)
SkipWhitespace(s, i) ==
    IF i < Len(s) /\ s[i + 1] \in Whitespace THEN SkipWhitespace(s, i + 1) ELSE i

\* the end of the match of \n\s*[-*]\s+ that starts at offset i, or -1
BulletMatchEnd(s, i) ==
    IF i < Len(s) /\ s[i + 1] = "\n"
    THEN LET j == SkipWhitespace(s, i + 1)
         IN  IF /\ j + 1 < Len(s)
                /\ s[j + 1] \in {"-", "*"}
                /\ s[j + 2] \in Whitespace
             THEN SkipWhitespace(s, j + 1)
             ELSE -1
    ELSE -1

\* re.split(r"\n\s*[-*]\s+", s)
RECURSIVE SplitBullets(_)
SplitBullets(s) ==
    LET starts == {i \in 0..(Len(s) - 1) : BulletMatchEnd(s, i) # -1}
    IN  IF starts = {}
        THEN <<s>>
        ELSE LET i == Min(starts)
             IN  <<Upto(s, i)>> \o SplitBullets(From(s, BulletMatchEnd(s, i)))

\* [x.strip() for x in xs]
StripAll(xs) == [i \in 1..Len(xs) |-> Strip(xs[i])]

NonEmpty(x) == x # <<>>

\* line 258: [line.strip() for line in entry.split("\n") if line.strip()]
EntryLines(entry) == SelectSeq(StripAll(Split(entry, <<"\n">>)), NonEmpty)

\* the number of digits, at most 3, that \d{1,3} takes at offset i
DigitRun(s, i) ==
    IF i + 2 < Len(s) /\ s[i + 1] \in Digits /\ s[i + 2] \in Digits /\ s[i + 3] \in Digits
    THEN 3
    ELSE IF i + 1 < Len(s) /\ s[i + 1] \in Digits /\ s[i + 2] \in Digits
    THEN 2
    ELSE IF i < Len(s) /\ s[i + 1] \in Digits
    THEN 1
    ELSE 0

\* (\d{1,3})% matches at offset i
PercentAt(s, i) ==
    LET d == DigitRun(s, i)
    IN  d > 0 /\ i + d < Len(s) /\ s[i + d + 1] = "%"

\* re.search(r"(\d{1,3})%", s): the offsets where it matches
PercentMatches(s) == {i \in 0..(Len(s) - 1) : PercentAt(s, i)}

\* int(eff_match.group(1))
PercentValue(s) ==
    LET i == Min(PercentMatches(s))
    IN  ToInt(SubSeq(s, i + 1, i + DigitRun(s, i)))

\* the end of the run of digits that starts at offset i
RECURSIVE DigitsEnd(_, _)
DigitsEnd(s, i) ==
    IF i < Len(s) /\ s[i + 1] \in Digits THEN DigitsEnd(s, i + 1) ELSE i

\* re.search(r"\d+", s): the offsets of digits
DigitOffsets(s) == {i \in 0..(Len(s) - 1) : s[i + 1] \in Digits}

\* int(num_match.group())
NumberValue(s) ==
    LET i == Min(DigitOffsets(s))
    IN  ToInt(SubSeq(s, i + 1, DigitsEnd(s, i)))

\* the values of a med_data dictionary: an int or a str
IntValue(n) == [t |-> "int", n |-> n, s |-> <<>>]

StrValue(s) == [t |-> "str", n |-> 0, s |-> s]

\* med_data[key] = value
Put(d, key, value) ==
    [k \in DOMAIN d \cup {key} |-> IF k = key THEN value ELSE d[k]]

\* line 265: first_line.split("(")[0].split(":")[0].strip()
MedName(first_line) ==
    Strip(Split(Split(first_line, <<"(">>)[1], <<":">>)[1])

\* lines 267-282: med_data after the first line
WithEffectiveness(d, first_line) ==
    IF PercentMatches(first_line) # {}
    THEN Put(d, EFFECTIVENESS_KEY, IntValue(PercentValue(first_line)))
    ELSE IF Contains(first_line, EFFECTIVENESS_LABEL)
    THEN LET eff_text == Strip(Split(first_line, EFFECTIVENESS_LABEL)[2])
         IN  IF Contains(eff_text, <<"%">>)
             THEN IF PercentMatches(eff_text) # {}
                  THEN Put(d, EFFECTIVENESS_KEY, IntValue(PercentValue(eff_text)))
                  ELSE d
             ELSE IF DigitOffsets(eff_text) # {}
                  THEN Put(d, EFFECTIVENESS_KEY, IntValue(NumberValue(eff_text)))
                  ELSE d
    ELSE d

\* lines 286-292: one of the lines after the first
WithDetail(d, line) ==
    IF Contains(line, <<":">>)
    THEN LET i == Find(line, <<":">>, 0)
             key == SpacesToUnderscores(Lower(Strip(Upto(line, i))))
         IN  Put(d, key, StrValue(Strip(From(line, i + 1))))
    ELSE IF Head(line) = "(" /\ line[Len(line)] = ")"
    THEN Put(d, ADDITIONAL_INFO_KEY, StrValue(StripChars(line, {"(", ")"})))
    ELSE d

\* lines 285-292: the loop over lines[1:]
RECURSIVE WithDetails(_, _)
WithDetails(d, lines) ==
    IF lines = <<>> THEN d ELSE WithDetails(WithDetail(d, Head(lines)), Tail(lines))

\* lines 257-294: med_data of an entry that has lines
MedData(lines) ==
    LET first_line == lines[1]
        named == [k \in {NAME_KEY} |-> StrValue(MedName(first_line))]
    IN  WithDetails(WithEffectiveness(named, first_line), Tail(lines))

\* a variant of MedEntries that keeps the text before the first bullet
MedEntriesKeepFirst(c) == SplitBullets(extract_section(c, MED_HEADER))

\* lines 251-254: med_entries
MedEntries(c) == Tail(SplitBullets(extract_section(c, MED_HEADER)))

\* lines 256-261: the lines of the entries that have any
MedEntryLines(c) == SelectSeq([i \in 1..Len(MedEntries(c)) |-> EntryLines(MedEntries(c)[i])], NonEmpty)

\* lines 248-296
parse_medications(c) ==
    LET entries == MedEntryLines(c)
    IN  [i \in 1..Len(entries) |-> MedData(entries[i])]

\* the lines the analysed texts are made of
MedLines ==
    { MED_HEADER,
      <<"#", "#", " ", "4", ".", " ", "L", "i", "f", "e", "s", "t", "y", "l",
        "e", " ", "G", "u", "i", "d", "a", "n", "c", "e">>,
      <<"-", " ", "P", "a", "r", "a", "c", "e", "t", "a", "m", "o", "l", " ",
        "(", "5", "0", "0", "m", "g", ")", " ", "-", " ", "E", "f", "f", "e",
        "c", "t", "i", "v", "e", "n", "e", "s", "s", ":", " ", "8", "5", "%">>,
      <<"-", " ", "I", "b", "u", "p", "r", "o", "f", "e", "n", ":", " ", "f",
        "a", "s", "t", " ", "r", "e", "l", "i", "e", "f">>,
      <<"D", "o", "s", "a", "g", "e", ":", " ", "2", "0", "0", "m", "g", " ",
        "t", "w", "i", "c", "e", " ", "d", "a", "i", "l", "y">>,
      <<"N", "a", "m", "e", ":", " ", "O", "t", "h", "e", "r">>,
      <<"E", "f", "f", "e", "c", "t", "i", "v", "e", "n", "e", "s", "s", ":",
        " ", "7", "0", "-", "8", "0", "%">>,
      <<"*", " ", "Z", "i", "n", "c", " ", "1", "5", "0", "%">>,
      <<"-", " ", "I", "r", "o", "n", " ", "E", "f", "f", "e", "c", "t", "i",
        "v", "e", "n", "e", "s", "s", ":", " ", "2", "5", "0">>,
      <<"(", "w", "i", "t", "h", " ", "f", "o", "o", "d", ")">>,
      <<"E", "f", "f", "e", "c", "t", "i", "v", "e", "n", "e", "s", "s", ":",
        " ", "9", "0", "%">>,
      <<>> }

MaxLines == 3

\* "\n".join(lines)
RECURSIVE Join(_)
Join(lines) ==
    IF lines = <<>>
    THEN <<>>
    ELSE IF Len(lines) = 1
    THEN lines[1]
    ELSE lines[1] \o <<"\n">> \o Join(Tail(lines))

MedTexts == UNION {{Join(ls) : ls \in [1..n -> MedLines]} : n \in 0..MaxLines}

InitMeds ==
    /\ SessionIdle
    /\ fpc = "input"
    /\ text \in MedTexts
    /\ header = MED_HEADER
    /\ section = <<>>
    /\ medications = <<>>
    /\ cards = <<>>
    /\ chart = <<>>
    /\ sizes = <<>>

\* a call parse_medications(text); section is its med_section
ParseMedications ==
    /\ fpc = "input"
    /\ section' = extract_section(text, MED_HEADER)
    /\ medications' = parse_medications(text)
    /\ fpc' = "done"
    /\ UNCHANGED <<session_vars, client_vars, text, header, display_vars>>

\* "N/A" (line 440)
NOT_AVAILABLE == <<"N", "/", "A">>

NotPercent(c) == c # "%"

NotUnderscore(c) == c # "_"

\* int(s) of a str does not raise ValueError: blanks around an optional sign
\* and digits, which single underscores may separate
IntParses(s) ==
    LET t == Strip(s)
        u == IF t # <<>> /\ Head(t) \in {"+", "-"} THEN Tail(t) ELSE t
    IN  /\ u # <<>>
        /\ u[1] \in Digits
        /\ u[Len(u)] \in Digits
        /\ \A i \in 1..Len(u) : u[i] \in Digits \cup {"_"}
        /\ \A i \in 1..(Len(u) - 1) : ~(u[i] = "_" /\ u[i + 1] = "_")

\* int(s) of a str that int() accepts
IntOf(s) ==
    LET t == Strip(s)
        u == IF Head(t) \in {"+", "-"} THEN Tail(t) ELSE t
        n == ToInt(SelectSeq(u, NotUnderscore))
    IN  IF Head(t) = "-" THEN 0 - n ELSE n

\* lines 440-449: the effectiveness render_medication_cards shows for med
CardEffectiveness(med) ==
    LET effectiveness ==
            IF EFFECTIVENESS_KEY \in DOMAIN med
            THEN med[EFFECTIVENESS_KEY]
            ELSE StrValue(NOT_AVAILABLE)
    IN  IF effectiveness.t = "str" /\ Contains(effectiveness.s, <<"%">>)
        THEN LET digits == Strip(SelectSeq(effectiveness.s, NotPercent))
             IN  IF IntParses(digits) THEN IntValue(IntOf(digits)) ELSE effectiveness
        ELSE effectiveness

\* lines 311-320: the effectiveness plot_medicine_effectiveness plots for med
ChartEffectiveness(med) ==
    LET eff == IF EFFECTIVENESS_KEY \in DOMAIN med
               THEN med[EFFECTIVENESS_KEY]
               ELSE IntValue(0)
    IN  IF eff.t = "str"
        THEN IF DigitOffsets(eff.s) # {}
             THEN IntValue(NumberValue(eff.s))
             ELSE IntValue(0)
        ELSE eff

\* lines 505-526: render_analysis_tabs shows the records parse_medications
\* returned, as cards and as the chart
RenderMedications ==
    /\ fpc = "done"
    /\ medications # <<>>
    /\ cards' = [i \in 1..Len(medications) |-> CardEffectiveness(medications[i])]
    /\ chart' = [i \in 1..Len(medications) |-> ChartEffectiveness(medications[i])]
    /\ fpc' = "shown"
    /\ UNCHANGED <<session_vars, client_vars, text, header, section, medications, sizes>>

NextMeds ==
    \/ ParseMedications
    \/ RenderMedications

SpecMeds == InitMeds /\ [][NextMeds]_vars

\* the body of the medication section: what follows the header in med_section
MedBody == Strip(From(section, Len(MED_HEADER)))

\* C8: parse_medications returns the empty sequence for the empty text, for
\* every text without the header "## 3. Medication Recommendations", and for
\* every text whose medication section has an empty body.
C8_NoSectionNoRecords ==
    fpc = "done" =>
        /\ text = <<>> => medications = <<>>
        /\ ~Contains(text, MED_HEADER) => medications = <<>>
        /\ (Contains(text, MED_HEADER) /\ MedBody = <<>>) => medications = <<>>

\* a text without the header that still has a bullet entry
C8_Witness ==
    /\ fpc = "done"
    /\ text # <<>>
    /\ ~Contains(text, MED_HEADER)
    /\ \E i \in 0..(Len(text) - 1) : BulletMatchEnd(text, i) # -1
    /\ medications = <<>>

\* the name the claim gives an entry: its first line up to the first "(" or
\* ":", stripped
ClaimedName(first_line) ==
    LET cut == {i \in 1..Len(first_line) : first_line[i] \in {"(", ":"}}
    IN  Strip(IF cut = {} THEN first_line ELSE SubSeq(first_line, 1, Min(cut) - 1))

\* C9: every record has the key name, and its value is the first line of its
\* entry up to the first "(" or ":", stripped, whatever the later lines are.
C9_NameFromFirstLine ==
    fpc = "done" =>
        /\ Len(medications) = Len(MedEntryLines(text))
        /\ \A i \in 1..Len(medications) :
               /\ NAME_KEY \in DOMAIN medications[i]
               /\ medications[i][NAME_KEY] =
                      StrValue(ClaimedName(MedEntryLines(text)[i][1]))

\* C10: in every record the key effectiveness is absent or an integer in
\* 0..100, never a string and never above 100.
C10_EffectivenessInRange ==
    fpc = "done" =>
        \A i \in 1..Len(medications) :
            EFFECTIVENESS_KEY \in DOMAIN medications[i] =>
                /\ medications[i][EFFECTIVENESS_KEY].t = "int"
                /\ medications[i][EFFECTIVENESS_KEY].n \in 0..100

\* the display value the claim gives a record: the integer itself, the first
\* run of digits of a string, 0 when there is none or the key is absent
ClaimedDisplay(med) ==
    IF EFFECTIVENESS_KEY \notin DOMAIN med
    THEN 0
    ELSE IF med[EFFECTIVENESS_KEY].t = "int"
    THEN med[EFFECTIVENESS_KEY].n
    ELSE LET e == med[EFFECTIVENESS_KEY].s
             at == {i \in 1..Len(e) : e[i] \in Digits}
         IN  IF at = {}
             THEN 0
             ELSE LET b == Min(at)
                      stop == {j \in b..Len(e) : j = Len(e) \/ e[j + 1] \notin Digits}
                  IN  ToInt(SubSeq(e, b, Min(stop)))

\* C11: for every record, the effectiveness the cards show and the one the
\* chart plots are the same value, resolved by the rule: the integer itself,
\* the first integer in a string, 0 when there is none or the key is absent.
C11_SameDisplayRule ==
    fpc = "shown" =>
        \A i \in 1..Len(medications) :
            /\ chart[i] = IntValue(ClaimedDisplay(medications[i]))
            /\ cards[i] = chart[i]

-----------------------------------------------------------------------------
(* create_diagnosis_chart *)

\* "## 5. Disease Classification" (lines 360-361)
CLASSIFICATION_HEADER ==
    <<"#", "#", " ", "5", ".", " ", "D", "i", "s", "e", "a", "s", "e", " ",
      "C", "l", "a", "s", "s", "i", "f", "i", "c", "a", "t", "i", "o", "n">>

CHRONIC == <<"c", "h", "r", "o", "n", "i", "c">>

INFECTIOUS == <<"i", "n", "f", "e", "c", "t", "i", "o", "u", "s">>

COMMON == <<"c", "o", "m", "m", "o", "n">>

\* line 358: the default distribution over Chronic, Infectious, Common, Other
DEFAULT_SIZES == <<25, 25, 25, 25>>

\* a variant of create_diagnosis_chart whose checks are an if/elif chain
create_diagnosis_chart_elif(c) ==
    IF Contains(c, CLASSIFICATION_HEADER)
    THEN LET classification == Lower(extract_section(c, CLASSIFICATION_HEADER))
         IN  IF Contains(classification, CHRONIC)
             THEN <<40, 20, 20, 20>>
             ELSE IF Contains(classification, INFECTIOUS)
             THEN <<20, 40, 20, 20>>
             ELSE IF Contains(classification, COMMON)
             THEN <<20, 20, 40, 20>>
             ELSE DEFAULT_SIZES
    ELSE DEFAULT_SIZES

\* lines 357-367: sizes, each `if` overwriting what the one before it set
create_diagnosis_chart(c) ==
    IF Contains(c, CLASSIFICATION_HEADER)
    THEN LET classification == Lower(extract_section(c, CLASSIFICATION_HEADER))
             sizes0 == DEFAULT_SIZES
             sizes1 == IF Contains(classification, CHRONIC)
                       THEN <<40, 20, 20, 20>> ELSE sizes0
             sizes2 == IF Contains(classification, INFECTIOUS)
                       THEN <<20, 40, 20, 20>> ELSE sizes1
             sizes3 == IF Contains(classification, COMMON)
                       THEN <<20, 20, 40, 20>> ELSE sizes2
         IN  sizes3
    ELSE DEFAULT_SIZES

\* the lines the charted texts are made of
ChartLines ==
    { CLASSIFICATION_HEADER,
      <<"#", "#", " ", "6", ".", " ", "N", "e", "x", "t", " ", "S", "t", "e",
        "p", "s">>,
      <<"C", "h", "r", "o", "n", "i", "c", " ", "i", "l", "l", "n", "e", "s",
        "s">>,
      <<"I", "N", "F", "E", "C", "T", "I", "O", "U", "S">>,
      <<"a", " ", "c", "o", "m", "m", "o", "n", " ", "c", "o", "l", "d">>,
      <<"o", "t", "h", "e", "r">> }

MaxChartLines == 4

ChartTexts == UNION {{Join(ls) : ls \in [1..n -> ChartLines]} : n \in 0..MaxChartLines}

InitChart ==
    /\ SessionIdle
    /\ fpc = "input"
    /\ text \in ChartTexts
    /\ header = CLASSIFICATION_HEADER
    /\ section = <<>>
    /\ medications = <<>>
    /\ cards = <<>>
    /\ chart = <<>>
    /\ sizes = <<>>

\* a call create_diagnosis_chart(text); section is its classification
CreateDiagnosisChart ==
    /\ fpc = "input"
    /\ section' = IF Contains(text, CLASSIFICATION_HEADER)
                  THEN Lower(extract_section(text, CLASSIFICATION_HEADER))
                  ELSE <<>>
    /\ sizes' = create_diagnosis_chart(text)
    /\ fpc' = "done"
    /\ UNCHANGED <<session_vars, client_vars, text, header, medications, cards, chart>>

NextChart == CreateDiagnosisChart

SpecChart == InitChart /\ [][NextChart]_vars

\* the keyword occurs in the lower-cased classification section
Mentions(keyword) == Contains(section, keyword)

\* C12: the sizes are those of the last matching keyword in the order
\* chronic, infectious, common, wherever the words stand in the section:
\* 25 each when none occurs, Chronic 40 when only chronic does, Infectious 40
\* when infectious does and common does not, Common 40 whenever common does;
\* the four sizes add up to 100.
C12_LastKeywordWins ==
    fpc = "done" =>
        /\ Mentions(COMMON) => sizes = <<20, 20, 40, 20>>
        /\ (Mentions(INFECTIOUS) /\ ~Mentions(COMMON)) => sizes = <<20, 40, 20, 20>>
        /\ (Mentions(CHRONIC) /\ ~Mentions(INFECTIOUS) /\ ~Mentions(COMMON)) =>
               sizes = <<40, 20, 20, 20>>
        /\ (~Mentions(CHRONIC) /\ ~Mentions(INFECTIOUS) /\ ~Mentions(COMMON)) =>
               sizes = <<25, 25, 25, 25>>
        /\ sizes[1] + sizes[2] + sizes[3] + sizes[4] = 100

\* chronic stands before common in the section, and Common gets the 40
C12_Witness ==
    /\ fpc = "done"
    /\ Mentions(CHRONIC)
    /\ Mentions(COMMON)
    /\ Find(section, CHRONIC, 0) < Find(section, COMMON, 0)
    /\ sizes = <<20, 20, 40, 20>>

-----------------------------------------------------------------------------
(* extract_section and markers inside the body *)

\* a header line: a "## " at the start of the text or right after a newline
HeaderLineAt(s, j) == OccursAt(s, SECTION_MARKER, j) /\ (j = 0 \/ s[j] = "\n")

\* C13: a "## " inside the body of the section (in a "### " sub-heading, in
\* the middle of a line) does not end it; the section of a header that is not
\* blank runs from the first occurrence of the header to the next header
\* line, or to the end of the text.
C13_OnlyHeaderLinesEndSection ==
    (fpc = "done" /\ Strip(header) # <<>> /\ Contains(text, header)) =>
        LET first == Min({i \in 0..Len(text) : OccursAt(text, header, i)})
            after == {j \in (first + Len(header))..Len(text) : HeaderLineAt(text, j)}
            end == IF after = {} THEN Len(text) ELSE Min(after)
        IN  section = Strip(SubSeq(text, first + 1, end))

-----------------------------------------------------------------------------
(* main and documents without text *)

NO_READABLE_TEXT == "No readable text found in the document."

\* a step that enters analyze_medical_report does so with a text that has a
\* non-blank character
InvocationHasText ==
    (pc = "idle" /\ pc' = "call") =>
        (Strip(uploaded_file.text) # <<>> /\ content' = uploaded_file.text)

\* a run that reports a document without readable text calls no service and
\* leaves the session's analysis as it was
NoTextEndsRun ==
    NO_READABLE_TEXT \in errors' =>
        (/\ Strip(uploaded_file.text) = <<>>
         /\ pc' = "idle"
         /\ calls' = calls
         /\ replies' = replies
         /\ analysis_done' = analysis_done
         /\ analysis_result' = analysis_result)

\* C14: analyze_medical_report is never given a content that is empty or all
\* white space: every invocation starts from an extracted text that has a
\* non-blank character, and the run that reports a document without readable
\* text makes no service call and leaves analysis_done and analysis_result
\* as they were.
C14_NeverBlankContent ==
    /\ [](pc # "idle" => Strip(content) # <<>>)
    /\ [][InvocationHasText]_vars
    /\ [][NoTextEndsRun]_vars

C14_Witness ==
    /\ pc = "idle"
    /\ NO_READABLE_TEXT \in errors
    /\ uploaded_file.text = <<" ", "\n">>
    /\ ~analysis_done
    /\ analysis_result = <<>>

\* C15: in every state of the session with a file uploaded, an analysis can
\* still be started: the Analyze button is offered, or the results view with
\* its "Analyze Another Report" button is; so analysis_done is never true
\* while analysis_result is empty.
C15_AnalysisCanAlwaysStart ==
    /\ (pc = "idle" /\ uploaded_file # NoFile) =>
           (AnalyzeAvailable \/ ResultsShown(analysis_done, analysis_result))
    /\ ~(analysis_done /\ analysis_result = <<>>)

====
